---- MODULE Spec2Model ----
(***************************************************************************)
(* Chat orchestration core of the GDPR explainer backend:                  *)
(* ChatService.chat_stream (backend/app/services/chat_service.py) with the *)
(* CacheService it memoises through, the SearchService and the             *)
(* ExplainerService it dispatches to, and the generation stream.           *)
(*                                                                         *)
(* chat_stream is an async generator.  One action of the model is one      *)
(* segment of its body between two suspension points (a yield or an        *)
(* await), or the answer of a collaborator the generator is waiting for.   *)
(***************************************************************************)
EXTENDS Integers, Sequences, FiniteSets, TLC

(***************************************************************************)
(* Bounds of the model.                                                    *)
(***************************************************************************)
\* generators of chat_stream that exist at the same time
MaxConcurrent == 2
\* fragments the generation stream produces at most in one attempt
MaxFragments == 2
\* characters of an identifier handed to the key derivation
MaxIdLen == 2

(***************************************************************************)
(* Program constants.                                                      *)
(***************************************************************************)
max_retries == 2
CACHE_TTL_CHAT == 3600
SLEEP_SECONDS == 1
TOPIC_LIMIT == 10
QA_LIMIT == 5

Runs == 1..MaxConcurrent

\* Python's None where a str is expected (model_provider)
None == "<None>"

(***************************************************************************)
(* Text.  A query is a sequence of characters so that lower() and strip()  *)
(* are computed; other texts are opaque strings.                           *)
(***************************************************************************)
LowerChar(c) ==
  CASE c = "A" -> "a"
    [] c = "I" -> "i"
    [] c = "Q" -> "q"
    [] OTHER -> c

\* str.lower()
Lower(s) == [i \in 1..Len(s) |-> LowerChar(s[i])]

RECURSIVE LStrip(_)
LStrip(s) == IF s # <<>> /\ Head(s) = " " THEN LStrip(Tail(s)) ELSE s

RECURSIVE RStrip(_)
RStrip(s) ==
  IF s # <<>> /\ s[Len(s)] = " " THEN RStrip(SubSeq(s, 1, Len(s) - 1)) ELSE s

\* str.strip()
Strip(s) == RStrip(LStrip(s))

\* hashlib.sha256(...).hexdigest()[:16]: opaque, the same digest for the
\* same input
Sha256Hex16(s) == <<"sha256", s>>

\* Python truthiness of a keyword value (a str or None)
TruthyStr(v) == v # None /\ v # ""

\* the keyword names the services use, in the order of Python's str
SortedParamNames == <<"lang", "limit", "model">>

\* sorted(kwargs.items()): kwargs is the sequence of (name, value) items in
\* the order the caller passed them, every name once
RECURSIVE SortedBy(_, _)
SortedBy(names, items) ==
  IF names = <<>> THEN <<>>
  ELSE SelectSeq(items, LAMBDA it : it[1] = Head(names))
         \o SortedBy(Tail(names), items)

\* _generate_key that joins the items in the order they were passed
_generate_key_unsorted(namespace, identifier, kwargs) ==
  LET hash_input == Strip(Lower(identifier))
      key_hash == Sha256Hex16(hash_input)
      params == SelectSeq(kwargs, LAMBDA it : TruthyStr(it[2]))
  IN  IF params # <<>> THEN <<namespace, key_hash, params>>
      ELSE <<namespace, key_hash>>

\* CacheService._generate_key
_generate_key(namespace, identifier, kwargs) ==
  LET hash_input == Strip(Lower(identifier))
      key_hash == Sha256Hex16(hash_input)
      params == SelectSeq(SortedBy(SortedParamNames, kwargs),
                          LAMBDA it : TruthyStr(it[2]))
  IN  IF params # <<>> THEN <<namespace, key_hash, params>>
      ELSE <<namespace, key_hash>>

(***************************************************************************)
(* Requests: (query, model_provider, language).                            *)
(***************************************************************************)
Queries == { <<"A", "i">>, <<" ", "a", "I", " ">> }

\* two requests whose cache keys are the same
Requests ==
  { [query |-> <<"A", "i">>, model_provider |-> None, language |-> "en"],
    [query |-> <<" ", "a", "I", " ">>, model_provider |-> "openai",
     language |-> "en"] }

\* chat_stream: cache_key_params, the items in the order of the dict
cache_key_params(req) ==
  << <<"model", IF TruthyStr(req.model_provider) THEN req.model_provider
                ELSE "openai">>,
     <<"lang", req.language>> >>

ChatKey(req) == _generate_key("chat", req.query, cache_key_params(req))

ChatKeys == { ChatKey(req) : req \in Requests }

(***************************************************************************)
(* JSON values, as json.loads returns them.                                *)
(***************************************************************************)
JNull == [kind |-> "null"]
JNumber(n) == [kind |-> "number", n |-> n]
JString(s) == [kind |-> "string", s |-> s]
\* a str made of the characters of a query
JText(q) == [kind |-> "string", chars |-> q]
JList == [kind |-> "list"]
JObject(f) == [kind |-> "object", fields |-> f]
EmptyFields == [k \in {} |-> JNull]

\* dict.get(key, default)
DictGet(obj, key, default) ==
  IF key \in DOMAIN obj.fields THEN obj.fields[key] ELSE default

\* Python truthiness of a parsed value
Truthy(v) ==
  CASE v.kind = "null" -> FALSE
    [] v.kind = "number" -> v.n # 0
    [] v.kind = "string" -> IF "s" \in DOMAIN v THEN v.s # "" ELSE v.chars # <<>>
    [] v.kind = "list" -> FALSE
    [] v.kind = "object" -> DOMAIN v.fields # {}

\* whether value[:50] evaluates (str and list do, None, int and dict raise)
Sliceable(v) == v.kind \in {"string", "list"}

\* how an f-string renders a parsed value
Format(v) ==
  CASE v.kind = "number" -> ToString(v.n)
    [] v.kind = "string" /\ "s" \in DOMAIN v -> v.s
    [] v.kind = "null" -> "None"
    [] OTHER -> "?"

(***************************************************************************)
(* Error texts: str(e) as the words the message selection looks for.       *)
(***************************************************************************)
\* the third text matches the model rule and the quota rule at once
ErrorTexts == { <<"boom">>, <<"Quota">>, <<"404", "models/", "quota">> }
\* 'int' object has no attribute 'get'
AttributeErrorText == <<"AttributeError">>
\* 'NoneType' object is not subscriptable
TypeErrorText == <<"TypeError">>

(***************************************************************************)
(* The classifier's raw answer: a sequence of pieces of text.              *)
(***************************************************************************)
FenceJson == [tok |-> "fence_json"]
Fence == [tok |-> "fence"]
Ws == [tok |-> " "]
Garbage == [tok |-> "text"]
JsonText(v) == [tok |-> "json", val |-> v]

\* route_raw.replace(fence_json, "").replace(fence, "").strip(), where the
\* fences are the markdown code fence with and without the json tag
RECURSIVE LStripWs(_)
LStripWs(s) == IF s # <<>> /\ Head(s) = Ws THEN LStripWs(Tail(s)) ELSE s

RECURSIVE RStripWs(_)
RStripWs(s) ==
  IF s # <<>> /\ s[Len(s)] = Ws THEN RStripWs(SubSeq(s, 1, Len(s) - 1)) ELSE s

StripFences(route_raw) ==
  LET no_json == SelectSeq(route_raw, LAMBDA t : t # FenceJson)
      no_fence == SelectSeq(no_json, LAMBDA t : t # Fence)
  IN  RStripWs(LStripWs(no_fence))

\* json.loads: one JSON document, or JSONDecodeError
JsonLoadsOk(text) == Len(text) = 1 /\ text[1].tok = "json"
JsonLoads(text) == text[1].val

\* FallbackRoute without the query parameter
FallbackRouteNoQuery(query) ==
  JObject([tool |-> JString("GENERAL_QA"), parameters |-> JObject(EmptyFields)])

\* the route the fallback of line 95 builds
FallbackRoute(query) ==
  JObject([tool |-> JString("GENERAL_QA"),
           parameters |-> JObject([query |-> JText(query)])])

\* chat_stream lines 90-95: the route, with the GENERAL_QA fallback
ParseRoute(route_raw, query) ==
  LET text == StripFences(route_raw)
  IN  IF JsonLoadsOk(text) THEN JsonLoads(text)
      ELSE FallbackRoute(query)

Tools == {"EXPLAIN_ARTICLE", "TOPIC_SEARCH", "GENERAL_QA"}

\* whether a raw answer is a route decision: a JSON object whose tool is
\* one of the three tools
ValidRouteDecision(route_raw) ==
  LET text == StripFences(route_raw)
  IN  /\ JsonLoadsOk(text)
      /\ JsonLoads(text).kind = "object"
      /\ DictGet(JsonLoads(text), "tool", JNull) \in { JString(t) : t \in Tools }

\* the documents a classifier may answer with
RouteDocs(query) ==
  { JObject([tool |-> JString("EXPLAIN_ARTICLE"),
             parameters |-> JObject([article_number |-> JNumber(32)])]),
    JObject([tool |-> JString("EXPLAIN_ARTICLE"),
             parameters |-> JObject([article_number |-> JNumber(999)])]),
    JObject([tool |-> JString("EXPLAIN_ARTICLE"),
             parameters |-> JObject([article_number |-> JNumber(0)])]),
    JObject([tool |-> JString("EXPLAIN_ARTICLE"),
             parameters |-> JObject(EmptyFields)]),
    JObject([tool |-> JString("EXPLAIN_ARTICLE")]),
    JObject([tool |-> JString("EXPLAIN_ARTICLE"), parameters |-> JNull]),
    JObject([tool |-> JString("TOPIC_SEARCH"),
             parameters |-> JObject([topic |-> JString("encryption")])]),
    JObject([tool |-> JString("TOPIC_SEARCH"),
             parameters |-> JObject(EmptyFields)]),
    JObject([tool |-> JString("GENERAL_QA"),
             parameters |-> JObject([query |-> JText(query)])]),
    JObject([tool |-> JString("GENERAL_QA"),
             parameters |-> JObject(EmptyFields)]),
    JObject([tool |-> JString("SUMMARIZE"),
             parameters |-> JObject(EmptyFields)]),
    JObject(EmptyFields),
    JNumber(5), JString("EXPLAIN_ARTICLE"), JList, JNull }

\* the raw answers: a document bare or in a code fence, and answers that
\* are no JSON document
RawAnswers(query) ==
  { <<JsonText(d)>> : d \in RouteDocs(query) }
  \cup { <<FenceJson, Ws, JsonText(d), Ws, Fence>> : d \in RouteDocs(query) }
  \cup { <<>>, <<Garbage>>, <<FenceJson, Garbage, Fence>>,
         <<Garbage, Ws, JsonText(JNull)>> }

(***************************************************************************)
(* Response chunks (Python dicts) and their serialisation.                 *)
(***************************************************************************)
ExplanationChunk(result) ==
  [type |-> "explanation", content |-> result.explanation,
   related_data |-> result.context]

NotFoundChunk ==
  [type |-> "error", content |-> "Could not find the specified article."]

SearchResultsChunk(topic, results) ==
  [type |-> "search_results",
   content |-> "Here are the articles related to '" \o Format(topic) \o "':",
   results |-> results]

SourcesChunk(search_results) == [type |-> "sources", results |-> search_results]

\* TokenChunk tagged as an answer
TokenChunkAnswer(chunk) == [type |-> "answer", content |-> chunk]

TokenChunk(chunk) == [type |-> "token", content |-> chunk]

ErrorChunk(error_msg) == [type |-> "error", content |-> error_msg]

\* json.dumps(value): the text of a value
Dumps(value) == [json |-> value]
\* json.loads(text) of such a text
Loads(text) == text.json
\* json.dumps(chunk) + "\n": one line of the response body
Line(chunk) == [json |-> chunk, newline |-> TRUE]

(***************************************************************************)
(* Terminal error message (chat_stream lines 179-183).                     *)
(***************************************************************************)
LowerWord(w) == IF w = "Quota" THEN "quota" ELSE w

\* word in str(last_error)
Contains(text, word) == \E i \in 1..Len(text) : text[i] = word

\* last_error: None, or the exception caught last
NoError == [raised |-> FALSE]
Raised(e) == [raised |-> TRUE, text |-> e]

\* str(last_error): None renders as the text None
Str(last_error) == IF last_error.raised THEN last_error.text ELSE <<"None">>

GenericMessage == "Sorry, I encountered an error processing your request."
ModelMessage ==
  "Error: The selected model is not available or the API key is invalid. Please check your settings."
QuotaMessage ==
  "Error: API quota exceeded. Please check your billing or credits."

ErrorMessage(last_error) ==
  LET text == Str(last_error)
      lowered == [i \in 1..Len(text) |-> LowerWord(text[i])]
  IN  IF Contains(text, "404") /\ Contains(text, "models/") THEN ModelMessage
      ELSE IF Contains(lowered, "quota") THEN QuotaMessage
      ELSE GenericMessage

(***************************************************************************)
(* Collaborators.                                                          *)
(***************************************************************************)
\* articles the graph holds
GraphArticles == {"ART-32"}

\* GraphService.get_article_details of an article the graph holds
ArticleDetails(article_id) ==
  [id |-> article_id, title |-> "Security of processing"]

\* ExplainerService.explain_article: None when the graph has no such
\* article, the explanation otherwise; the graph or the LLM may raise
ExplainOutcomes(article_id) ==
  { [kind |-> "raise", err |-> e] : e \in ErrorTexts }
  \cup (IF article_id \in GraphArticles
        THEN { [kind |-> "result",
                result |-> [article_id |-> article_id,
                            explanation |-> "Explanation of " \o article_id,
                            context |-> ArticleDetails(article_id)]] }
        ELSE { [kind |-> "none"] })

SearchHit ==
  [id |-> "ART-32", article_number |-> 32, title |-> "Security of processing",
   text_snippet |-> "Taking into account...", score |-> 1]

\* result lists of at most limit hits
HitLists(limit) == { h \in { <<>>, <<SearchHit>> } : Len(h) <= limit }

\* SearchService.search(query, limit): the log line slices the query
\* outside the try block; failures inside it give the empty list
SearchOutcomes(query, limit) ==
  IF ~Sliceable(query) THEN { [kind |-> "raise", err |-> TypeErrorText] }
  ELSE { [kind |-> "result", results |-> h] : h \in HitLists(limit) }

\* the k-th fragment of the generation stream of one attempt (its text is
\* opaque to chat_stream; it names the stream and the position)
Fragment(attempt, k) == "t" \o ToString(attempt + 1) \o "." \o ToString(k)

\* CacheService._get_default_ttl
_get_default_ttl(namespace) ==
  CASE namespace = "chat" -> CACHE_TTL_CHAT
    [] OTHER -> 3600

(***************************************************************************)
(* State.                                                                  *)
(***************************************************************************)
VARIABLES
  enabled,     \* CacheService.enabled
  redis,       \* the store: key -> NoValue or [value, ttl]
  run,         \* per call of chat_stream: its arguments, locals and position
  writer,      \* history: key -> the request and the output of the run
               \* whose transcript the key holds
  keyed        \* key derivations on their own: the arguments of a call
               \* and the key it returned

vars == <<enabled, redis, run, writer, keyed>>

NoValue == [absent |-> TRUE]
NoWriter == [absent |-> TRUE]

ZeroCalls ==
  [get_llm |-> 0, router |-> 0, explain |-> 0, search |-> 0, astream |-> 0,
   cache_set |-> 0]

\* a call that has not been made
IdleRun ==
  [pc |-> "idle", query |-> <<>>, model_provider |-> None, language |-> "",
   cached_response |-> NoValue, replay_i |-> 0, response_chunks |-> <<>>,
   attempt |-> 0, last_error |-> NoError, tool |-> JNull, params |-> JNull,
   full_answer |-> <<>>, requested |-> 0, out |-> <<>>, calls |-> ZeroCalls,
   slept |-> 0,
   \* history: the length of out when the current attempt began, the
   \* attempts begun, the exceptions caught, the exception the current
   \* attempt raised, what the classifier's last answer was, how the cache
   \* probe went
   attempt_base |-> 0, attempts |-> 0, failed |-> 0, attempt_error |-> NoError,
   route_fallback |-> FALSE, route_invalid |-> FALSE,
   probe_ok |-> FALSE, found_writer |-> NoWriter,
   \* history: the caller has abandoned the run
   abandoned |-> FALSE]

\* no key derivation on its own is under way
KeySides == {"left", "right"}
NoKeyCall == [op |-> "none"]

Init ==
  /\ enabled \in BOOLEAN
  /\ redis = [k \in ChatKeys |-> NoValue]
  /\ run = [r \in Runs |-> IdleRun]
  /\ writer = [k \in ChatKeys |-> NoWriter]
  /\ keyed = [s \in KeySides |-> NoKeyCall]

RunKey(rec) ==
  _generate_key("chat", rec.query,
    cache_key_params([query |-> rec.query,
                      model_provider |-> rec.model_provider,
                      language |-> rec.language]))

\* CacheService.get: None when disabled, when the store raises or when the
\* key is absent; the decoded value otherwise
CacheGet(key, store_ok) ==
  IF ~enabled THEN NoValue
  ELSE IF ~store_ok THEN NoValue
  ELSE IF redis[key] = NoValue THEN NoValue
  ELSE Loads(redis[key].value)

\* CacheSet that adds the chunks to the ones the key holds
CacheSetMerging(key, data, store_ok) ==
  IF ~enabled THEN redis
  ELSE IF ~store_ok THEN redis
  ELSE LET held == IF redis[key] = NoValue THEN <<>>
                   ELSE Loads(redis[key].value).chunks
       IN  [redis EXCEPT ![key] =
              [value |-> Dumps([chunks |-> held \o data.chunks]),
               ttl |-> _get_default_ttl("chat")]]

\* CacheService.set: the store after the call
CacheSet(key, data, store_ok) ==
  IF ~enabled THEN redis
  ELSE IF ~store_ok THEN redis
  ELSE [redis EXCEPT ![key] =
          [value |-> Dumps(data), ttl |-> _get_default_ttl("chat")]]

\* CacheService.set: what the call returns, True when the value was stored
CacheSetResult(store_ok) == enabled /\ store_ok

\* AppendAndYield that yields the chunk without recording it
AppendAndYieldUnrecorded(rec, chunk, next_pc) ==
  [rec EXCEPT !.out = Append(@, Line(chunk)), !.pc = next_pc]

\* response_chunks.append(chunk); yield json.dumps(chunk) + "\n"
AppendAndYield(rec, chunk, next_pc) ==
  [rec EXCEPT !.response_chunks = Append(@, chunk),
              !.out = Append(@, Line(chunk)),
              !.pc = next_pc]

\* Except that also reports every caught exception to the caller
ExceptYieldsError(rec, e) ==
  [rec EXCEPT !.last_error = Raised(e), !.attempt_error = Raised(e),
              !.failed = @ + 1,
              !.out = Append(@, Line(ErrorChunk(<<"Error: ">> \o e))),
              !.pc = IF rec.attempt = max_retries - 1 THEN "exhausted"
                     ELSE "sleeping"]

\* Except that gives up at the first exception
ExceptNoRetry(rec, e) ==
  [rec EXCEPT !.last_error = Raised(e), !.attempt_error = Raised(e),
              !.failed = @ + 1, !.pc = "exhausted"]

\* Except with a handler for the errors of the collaborators only: an
\* AttributeError or a TypeError leaves the generator
ExceptCollaboratorErrors(rec, e) ==
  IF e \in {AttributeErrorText, TypeErrorText}
  THEN [rec EXCEPT !.pc = "raised"]
  ELSE [rec EXCEPT !.last_error = Raised(e), !.attempt_error = Raised(e),
                   !.failed = @ + 1,
                   !.pc = IF rec.attempt = max_retries - 1 THEN "exhausted"
                          ELSE "sleeping"]

\* except Exception as e (lines 169-176): remember the error, leave the
\* loop after the last attempt, sleep before another one
Except(rec, e) ==
  [rec EXCEPT !.last_error = Raised(e), !.attempt_error = Raised(e),
              !.failed = @ + 1,
              !.pc = IF rec.attempt = max_retries - 1 THEN "exhausted"
                     ELSE "sleeping"]

Count(rec, name) == [rec EXCEPT !.calls[name] = @ + 1]

SetRun(r, rec) == run' = [run EXCEPT ![r] = rec]

(***************************************************************************)
(* chat_stream.                                                            *)
(***************************************************************************)
\* chat_stream(query, model_provider, language) is called.  The calls of
\* this specification follow one another: a call is made when no generator
\* is running, and the finished generator is dropped
StartRun(r, req) ==
  /\ r = 1
  /\ \A q \in Runs : run[q].pc \in {"idle", "done", "closed"}
  /\ run' = [q \in Runs |->
              IF q = r
              THEN [IdleRun EXCEPT !.pc = "start", !.query = req.query,
                                   !.model_provider = req.model_provider,
                                   !.language = req.language]
              ELSE IdleRun]
  /\ UNCHANGED <<enabled, redis, writer, keyed>>

\* lines 61-78: the cache probe; a hit yields the first cached chunk, a miss
\* enters the retry loop
Probe(r) ==
  /\ run[r].pc = "start"
  /\ \E store_ok \in BOOLEAN :
       LET cached_response == CacheGet(RunKey(run[r]), store_ok)
       IN  IF cached_response # NoValue
           THEN LET chunks == cached_response.chunks
                IN  SetRun(r, [run[r] EXCEPT
                      !.cached_response = cached_response,
                      !.probe_ok = store_ok,
                      !.found_writer = writer[RunKey(run[r])],
                      !.replay_i = IF chunks = <<>> THEN 0 ELSE 1,
                      !.out = IF chunks = <<>> THEN @
                              ELSE Append(@, Line(chunks[1])),
                      !.pc = IF chunks = <<>> THEN "done"
                             ELSE "replay_yielded"])
           ELSE SetRun(r, [run[r] EXCEPT !.response_chunks = <<>>,
                                         !.probe_ok = store_ok,
                                         !.last_error = NoError,
                                         !.attempt = 0,
                                         !.pc = "attempt"])
  /\ UNCHANGED <<enabled, redis, writer, keyed>>

\* ReplayNext without the return of line 70: after the last cached chunk
\* the run goes on into the retry loop
ReplayNextFallsThrough(r) ==
  /\ run[r].pc = "replay_yielded"
  /\ LET chunks == run[r].cached_response.chunks
         i == run[r].replay_i
     IN  IF i < Len(chunks)
         THEN SetRun(r, [run[r] EXCEPT !.replay_i = i + 1,
                                       !.out = Append(@, Line(chunks[i + 1]))])
         ELSE SetRun(r, [run[r] EXCEPT !.pc = "attempt"])
  /\ UNCHANGED <<enabled, redis, writer, keyed>>

\* lines 68-70: the next cached chunk, or return after the last one
ReplayNext(r) ==
  /\ run[r].pc = "replay_yielded"
  /\ LET chunks == run[r].cached_response.chunks
         i == run[r].replay_i
     IN  IF i < Len(chunks)
         THEN SetRun(r, [run[r] EXCEPT !.replay_i = i + 1,
                                       !.out = Append(@, Line(chunks[i + 1]))])
         ELSE SetRun(r, [run[r] EXCEPT !.pc = "done"])
  /\ UNCHANGED <<enabled, redis, writer, keyed>>

\* BeginAttempt with response_chunks emptied at the start of each attempt
BeginAttemptResets(r) ==
  /\ run[r].pc = "attempt"
  /\ LET rec == [Count(run[r], "get_llm") EXCEPT
                   !.attempts = @ + 1, !.attempt_base = Len(run[r].out),
                   !.attempt_error = NoError,
                   !.tool = JNull, !.params = JNull,
                   !.route_fallback = FALSE, !.route_invalid = FALSE,
                   !.full_answer = <<>>, !.requested = 0,
                   !.response_chunks = <<>>]
     IN  \/ \E e \in ErrorTexts : SetRun(r, Except(rec, e))
         \/ SetRun(r, [Count(rec, "router") EXCEPT !.pc = "router_wait"])
  /\ UNCHANGED <<enabled, redis, writer, keyed>>

\* lines 80-89: an attempt begins; get_llm builds the model client and the
\* router chain is invoked
BeginAttempt(r) ==
  /\ run[r].pc = "attempt"
  /\ LET rec == [Count(run[r], "get_llm") EXCEPT
                   !.attempts = @ + 1, !.attempt_base = Len(run[r].out),
                   !.attempt_error = NoError,
                   !.tool = JNull, !.params = JNull,
                   !.route_fallback = FALSE, !.route_invalid = FALSE,
                   !.full_answer = <<>>, !.requested = 0]
     IN  \/ \E e \in ErrorTexts : SetRun(r, Except(rec, e))
         \/ SetRun(r, [Count(rec, "router") EXCEPT !.pc = "router_wait"])
  /\ UNCHANGED <<enabled, redis, writer, keyed>>

\* line 89: router_chain.ainvoke raises
RouterRaises(r) ==
  /\ run[r].pc = "router_wait"
  /\ \E e \in ErrorTexts : SetRun(r, Except(run[r], e))
  /\ UNCHANGED <<enabled, redis, writer, keyed>>

\* lines 89-98: router_chain.ainvoke returns route_raw
RouterReturns(r) ==
  /\ run[r].pc = "router_wait"
  /\ \E route_raw \in RawAnswers(run[r].query) :
       LET route == ParseRoute(route_raw, run[r].query)
           rec == [run[r] EXCEPT
                     !.route_fallback = ~JsonLoadsOk(StripFences(route_raw)),
                     !.route_invalid = ~ValidRouteDecision(route_raw)]
       IN  IF route.kind # "object"
           THEN SetRun(r, Except(rec, AttributeErrorText))
           ELSE SetRun(r, [rec EXCEPT
                  !.tool = DictGet(route, "tool", JNull),
                  !.params = DictGet(route, "parameters", JObject(EmptyFields)),
                  !.pc = "dispatch"])
  /\ UNCHANGED <<enabled, redis, writer, keyed>>

\* SetAndReturn with a set that lets the failure of the store through: the
\* exception is caught by the retry loop
SetAndReturnRaises(r, store_ok) ==
  /\ IF enabled /\ ~store_ok
     THEN SetRun(r, Except(Count(run[r], "cache_set"), <<"boom">>))
     ELSE SetRun(r, [Count(run[r], "cache_set") EXCEPT !.pc = "done"])
  /\ UNCHANGED <<enabled, redis, writer, keyed>>

\* lines 115, 135, 165: cache_service.set("chat", query, {"chunks":
\* response_chunks}, **cache_key_params) and return
SetAndReturn(r, store_ok) ==
  LET key == RunKey(run[r])
      data == [chunks |-> run[r].response_chunks]
  IN  /\ redis' = CacheSet(key, data, store_ok)
      /\ writer' = IF enabled /\ store_ok
                   THEN [writer EXCEPT ![key] =
                          [query |-> run[r].query,
                           model_provider |-> run[r].model_provider,
                           language |-> run[r].language,
                           out |-> run[r].out]]
                   ELSE writer
      /\ SetRun(r, [Count(run[r], "cache_set") EXCEPT !.pc = "done"])
      /\ UNCHANGED <<enabled, keyed>>

\* lines 101-121: the EXPLAIN_ARTICLE branch up to its yield.  The call of
\* explain_article is made inside this segment; where generators share an
\* event loop the segment is entered at in_explain, inside the call
ExplainArticle(r) ==
  /\ run[r].pc \in {"dispatch", "in_explain"}
  /\ run[r].tool = JString("EXPLAIN_ARTICLE")
  /\ LET params == run[r].params
     IN  IF params.kind # "object"
         THEN SetRun(r, Except(run[r], AttributeErrorText))
         ELSE LET art_num == DictGet(params, "article_number", JNull)
                  not_found(rec) ==
                    AppendAndYield(rec, NotFoundChunk, "not_found_yielded")
              IN  IF Truthy(art_num)
                  THEN \E o \in ExplainOutcomes("ART-" \o Format(art_num)) :
                         LET rec == Count(run[r], "explain")
                         IN  CASE o.kind = "raise" ->
                                    SetRun(r, Except(rec, o.err))
                               [] o.kind = "none" -> SetRun(r, not_found(rec))
                               [] o.kind = "result" ->
                                    SetRun(r, AppendAndYield(rec,
                                      ExplanationChunk(o.result),
                                      "explanation_yielded"))
                  ELSE SetRun(r, not_found(run[r]))
  /\ UNCHANGED <<enabled, redis, writer, keyed>>

\* lines 114-116: after the explanation chunk was taken
ExplainResume(r) ==
  /\ run[r].pc = "explanation_yielded"
  /\ \E store_ok \in BOOLEAN : SetAndReturn(r, store_ok)

\* NotFoundResume that caches the transcript like the other branches
NotFoundResumeCaches(r) ==
  /\ run[r].pc = "not_found_yielded"
  /\ \E store_ok \in BOOLEAN : SetAndReturn(r, store_ok)

\* NotFoundResume without the return of line 121: the loop goes on
NotFoundResumeRetries(r) ==
  /\ run[r].pc = "not_found_yielded"
  /\ SetRun(r, IF run[r].attempt + 1 < max_retries
               THEN [run[r] EXCEPT !.attempt = @ + 1, !.pc = "attempt"]
               ELSE [run[r] EXCEPT !.pc = "exhausted"])
  /\ UNCHANGED <<enabled, redis, writer, keyed>>

\* line 121: after the not-found chunk was taken
NotFoundResume(r) ==
  /\ run[r].pc = "not_found_yielded"
  /\ SetRun(r, [run[r] EXCEPT !.pc = "done"])
  /\ UNCHANGED <<enabled, redis, writer, keyed>>

\* lines 123-132: the TOPIC_SEARCH branch up to its yield; entered at
\* in_search where the call of search is a state of its own
TopicSearch(r) ==
  /\ run[r].pc \in {"dispatch", "in_search"}
  /\ run[r].tool = JString("TOPIC_SEARCH")
  /\ LET params == run[r].params
     IN  IF params.kind # "object"
         THEN SetRun(r, Except(run[r], AttributeErrorText))
         ELSE LET topic == DictGet(params, "topic", JNull)
                  rec == Count(run[r], "search")
              IN  \E o \in SearchOutcomes(topic, TOPIC_LIMIT) :
                    IF o.kind = "raise" THEN SetRun(r, Except(rec, o.err))
                    ELSE SetRun(r, AppendAndYield(rec,
                           SearchResultsChunk(topic, o.results),
                           "search_results_yielded"))
  /\ UNCHANGED <<enabled, redis, writer, keyed>>

\* lines 134-136: after the search results chunk was taken
TopicResume(r) ==
  /\ run[r].pc = "search_results_yielded"
  /\ \E store_ok \in BOOLEAN : SetAndReturn(r, store_ok)

\* GeneralQA that does not send the sources before the answer
GeneralQANoSources(r) ==
  /\ run[r].pc \in {"dispatch", "in_search"}
  /\ run[r].tool = JString("GENERAL_QA")
  /\ LET params == run[r].params
     IN  IF params.kind # "object"
         THEN SetRun(r, Except(run[r], AttributeErrorText))
         ELSE LET rec == Count(run[r], "search")
              IN  \E o \in SearchOutcomes(DictGet(params, "query", JNull),
                                          QA_LIMIT) :
                    IF o.kind = "raise" THEN SetRun(r, Except(rec, o.err))
                    ELSE SetRun(r, [rec EXCEPT !.pc = "sources_yielded"])
  /\ UNCHANGED <<enabled, redis, writer, keyed>>

\* lines 138-149: the GENERAL_QA branch up to the yield of the sources;
\* entered at in_search where the call of search is a state of its own
GeneralQA(r) ==
  /\ run[r].pc \in {"dispatch", "in_search"}
  /\ run[r].tool = JString("GENERAL_QA")
  /\ LET params == run[r].params
     IN  IF params.kind # "object"
         THEN SetRun(r, Except(run[r], AttributeErrorText))
         ELSE LET rec == Count(run[r], "search")
              IN  \E o \in SearchOutcomes(DictGet(params, "query", JNull),
                                          QA_LIMIT) :
                    IF o.kind = "raise" THEN SetRun(r, Except(rec, o.err))
                    ELSE SetRun(r, AppendAndYield(rec, SourcesChunk(o.results),
                                                  "sources_yielded"))
  /\ UNCHANGED <<enabled, redis, writer, keyed>>

\* lines 151-155: after the sources chunk was taken, qa_chain.astream is
\* called and its first fragment awaited
AstreamOpen(r) ==
  /\ run[r].pc = "sources_yielded"
  /\ SetRun(r, [Count(run[r], "astream") EXCEPT
                  !.full_answer = <<>>, !.requested = 1, !.pc = "astream_wait"])
  /\ UNCHANGED <<enabled, redis, writer, keyed>>

\* line 155: after a token chunk was taken, the next fragment is awaited
AstreamRequest(r) ==
  /\ run[r].pc = "token_yielded"
  /\ SetRun(r, [run[r] EXCEPT !.requested = @ + 1, !.pc = "astream_wait"])
  /\ UNCHANGED <<enabled, redis, writer, keyed>>

\* AstreamFragment that keeps the fragment back instead of yielding it
AstreamFragmentBuffered(r) ==
  /\ run[r].pc = "astream_wait"
  /\ run[r].requested <= MaxFragments
  /\ LET chunk == Fragment(run[r].attempt, run[r].requested)
     IN  SetRun(r, [run[r] EXCEPT
                      !.full_answer = Append(@, chunk),
                      !.response_chunks = Append(@, TokenChunk(chunk)),
                      !.pc = "token_yielded"])
  /\ UNCHANGED <<enabled, redis, writer, keyed>>

\* lines 155-162: the stream produces a fragment
AstreamFragment(r) ==
  /\ run[r].pc = "astream_wait"
  /\ run[r].requested <= MaxFragments
  /\ LET chunk == Fragment(run[r].attempt, run[r].requested)
         rec == [run[r] EXCEPT !.full_answer = Append(@, chunk)]
     IN  SetRun(r, AppendAndYield(rec, TokenChunk(chunk), "token_yielded"))
  /\ UNCHANGED <<enabled, redis, writer, keyed>>

\* line 155: the stream raises
AstreamRaises(r) ==
  /\ run[r].pc = "astream_wait"
  /\ \E e \in ErrorTexts : SetRun(r, Except(run[r], e))
  /\ UNCHANGED <<enabled, redis, writer, keyed>>

\* lines 164-167: the stream ends
AstreamEnd(r) ==
  /\ run[r].pc = "astream_wait"
  /\ \E store_ok \in BOOLEAN : SetAndReturn(r, store_ok)

\* NoBranch that does not count the attempt it ends
NoBranchRestarts(r) ==
  /\ run[r].pc = "dispatch"
  /\ run[r].tool \notin { JString(t) : t \in Tools }
  /\ SetRun(r, [run[r] EXCEPT !.pc = "attempt"])
  /\ UNCHANGED <<enabled, redis, writer, keyed>>

\* line 101-138: no branch matches the tool; the try block ends without an
\* exception and the loop goes on to the next attempt, if there is one
NoBranch(r) ==
  /\ run[r].pc = "dispatch"
  /\ run[r].tool \notin { JString(t) : t \in Tools }
  /\ SetRun(r, IF run[r].attempt + 1 < max_retries
               THEN [run[r] EXCEPT !.attempt = @ + 1, !.pc = "attempt"]
               ELSE [run[r] EXCEPT !.pc = "exhausted"])
  /\ UNCHANGED <<enabled, redis, writer, keyed>>

\* line 176: asyncio.sleep(1) is over, the loop goes on to the next attempt
SleepDone(r) ==
  /\ run[r].pc = "sleeping"
  /\ SetRun(r, [run[r] EXCEPT !.slept = @ + SLEEP_SECONDS,
                              !.attempt = @ + 1, !.pc = "attempt"])
  /\ UNCHANGED <<enabled, redis, writer, keyed>>

\* lines 178-185: all attempts are used up, the terminal error chunk
Exhausted(r) ==
  /\ run[r].pc = "exhausted"
  /\ LET error_msg == ErrorMessage(run[r].last_error)
     IN  SetRun(r, [run[r] EXCEPT !.out = Append(@, Line(ErrorChunk(error_msg))),
                                  !.pc = "error_yielded"])
  /\ UNCHANGED <<enabled, redis, writer, keyed>>

\* after line 185: the end of the generator
FinalResume(r) ==
  /\ run[r].pc = "error_yielded"
  /\ SetRun(r, [run[r] EXCEPT !.pc = "done"])
  /\ UNCHANGED <<enabled, redis, writer, keyed>>

\* the positions where the generator is suspended at a yield
YieldPcs ==
  {"replay_yielded", "explanation_yielded", "not_found_yielded",
   "search_results_yielded", "sources_yielded", "token_yielded",
   "error_yielded"}

\* the positions where the generator is suspended at an await
AwaitPcs == {"router_wait", "astream_wait", "sleeping"}

\* the positions inside the try block of lines 81-167
TryPcs ==
  {"router_wait", "explanation_yielded", "not_found_yielded",
   "search_results_yielded", "sources_yielded", "astream_wait",
   "token_yielded"}

\* what is thrown into an abandoned generator: aclose() throws
\* GeneratorExit at the yield, a cancelled request throws CancelledError
\* at the await
AbandonSignal(pc) ==
  IF pc \in YieldPcs THEN "GeneratorExit" ELSE "CancelledError"

\* a handler that catches every exception class
CaughtByExceptBaseException(cls) == TRUE

\* except Exception (line 169): GeneratorExit and asyncio.CancelledError
\* derive from BaseException, not from Exception
CaughtByExceptException(cls) == cls \notin {"GeneratorExit", "CancelledError"}

\* an exception of class cls is thrown into the generator where it is
\* suspended: the handler of the try block takes it if it catches the
\* class, otherwise the exception leaves the generator, which is closed
Thrown(rec, cls) ==
  IF rec.pc \in TryPcs /\ CaughtByExceptException(cls)
  THEN [Except(rec, <<cls>>) EXCEPT !.abandoned = TRUE]
  ELSE [rec EXCEPT !.abandoned = TRUE, !.pc = "closed"]

\* the caller closes the chunk stream or cancels the request while the
\* generator is suspended
Abandon(r) ==
  /\ run[r].pc \in YieldPcs \cup AwaitPcs
  /\ SetRun(r, Thrown(run[r], AbandonSignal(run[r].pc)))
  /\ UNCHANGED <<enabled, redis, writer, keyed>>

\* the store drops a key: its TTL ran out, or /cache/invalidate or
\* /cache/clear deleted it (CacheService.invalidate_pattern)
Evict(k) ==
  /\ redis[k] # NoValue
  /\ redis' = [redis EXCEPT ![k] = NoValue]
  /\ writer' = [writer EXCEPT ![k] = NoWriter]
  /\ UNCHANGED <<enabled, run, keyed>>

Next ==
  \/ \E r \in Runs, req \in Requests : StartRun(r, req)
  \/ \E r \in Runs : Probe(r)
  \/ \E r \in Runs : ReplayNext(r)
  \/ \E r \in Runs : BeginAttempt(r)
  \/ \E r \in Runs : RouterRaises(r)
  \/ \E r \in Runs : RouterReturns(r)
  \/ \E r \in Runs : ExplainArticle(r)
  \/ \E r \in Runs : ExplainResume(r)
  \/ \E r \in Runs : NotFoundResume(r)
  \/ \E r \in Runs : TopicSearch(r)
  \/ \E r \in Runs : TopicResume(r)
  \/ \E r \in Runs : GeneralQA(r)
  \/ \E r \in Runs : AstreamOpen(r)
  \/ \E r \in Runs : AstreamRequest(r)
  \/ \E r \in Runs : AstreamFragment(r)
  \/ \E r \in Runs : AstreamRaises(r)
  \/ \E r \in Runs : AstreamEnd(r)
  \/ \E r \in Runs : NoBranch(r)
  \/ \E r \in Runs : SleepDone(r)
  \/ \E r \in Runs : Exhausted(r)
  \/ \E r \in Runs : FinalResume(r)
  \/ \E k \in ChatKeys : Evict(k)

Spec == Init /\ [][Next]_vars

\* a step of the generator of slot r: the consumer of the stream takes the
\* next chunk, or a collaborator call returns or raises
RunSteps(r) ==
  \/ Probe(r) \/ ReplayNext(r) \/ BeginAttempt(r)
  \/ RouterRaises(r) \/ RouterReturns(r)
  \/ ExplainArticle(r) \/ ExplainResume(r) \/ NotFoundResume(r)
  \/ TopicSearch(r) \/ TopicResume(r) \/ GeneralQA(r)
  \/ AstreamOpen(r) \/ AstreamRequest(r) \/ AstreamFragment(r)
  \/ AstreamRaises(r) \/ AstreamEnd(r)
  \/ NoBranch(r) \/ SleepDone(r) \/ Exhausted(r) \/ FinalResume(r)

\* the stream is consumed to its end, every collaborator call returns or
\* raises, and asyncio.sleep returns: a generator that can take a step
\* takes one
SpecFair == Spec /\ \A r \in Runs : WF_vars(RunSteps(r))

\* the calls of Spec, each of which the caller may abandon
NextAbandon ==
  \/ Next
  \/ \E r \in Runs : Abandon(r)

SpecAbandon == Init /\ [][NextAbandon]_vars

(***************************************************************************)
(* Generators of chat_stream that share the event loop of the server.  The *)
(* loop runs one segment of one generator at a time.  An await            *)
(* (router_chain.ainvoke, qa_chain.astream, asyncio.sleep) and a yield     *)
(* give the loop back; explain_article and search are plain calls (def,    *)
(* not async def, called without await) and keep it until they return.     *)
(***************************************************************************)
\* the positions inside a synchronous collaborator call
SyncPcs == {"in_explain", "in_search"}

\* the loop can run a segment of generator r: no other generator is inside
\* a synchronous call
Scheduled(r) == \A q \in Runs \ {r} : run[q].pc \notin SyncPcs

\* the request the concurrent calls are made with
SharedRequest ==
  [query |-> <<"A", "i">>, model_provider |-> None, language |-> "en"]

\* what the collaborators do in this specification: the store answers the
\* probe, the classifier call fails with one text or answers with the route
\* to an article the graph holds or to GENERAL_QA, the explainer and the
\* generation stream do not fail, a search finds one hit
Environment(rec) ==
  /\ rec.pc \notin {"idle", "start"} => rec.probe_ok
  /\ ~rec.route_fallback
  /\ ~rec.route_invalid
  /\ rec.last_error \in {NoError, Raised(<<"boom">>)}
  /\ rec.pc \in {"sleeping", "exhausted"} => rec.tool = JNull
  /\ rec.params \in { JNull,
                       JObject([article_number |-> JNumber(32)]),
                       JObject([query |-> JText(rec.query)]) }
  /\ rec.pc = "dispatch" => rec.params # JNull
  /\ \A i \in 1..Len(rec.out) :
       rec.out[i].json.type = "sources" =>
         rec.out[i].json.results = <<SearchHit>>

\* a segment of generator r as the event loop runs it
OnLoop(r, Segment) == Scheduled(r) /\ Segment /\ Environment(run'[r])

InitLoop ==
  /\ enabled = TRUE
  /\ redis = [k \in ChatKeys |-> NoValue]
  /\ run = [r \in Runs |-> IdleRun]
  /\ writer = [k \in ChatKeys |-> NoWriter]
  /\ keyed = [s \in KeySides |-> NoKeyCall]

\* chat_stream is called while other generators may be running; the
\* generators take the slots in order
StartConcurrent(r) ==
  /\ run[r].pc = "idle"
  /\ \A q \in Runs : q < r => run[q].pc # "idle"
  /\ SetRun(r, [IdleRun EXCEPT !.pc = "start",
                               !.query = SharedRequest.query,
                               !.model_provider = SharedRequest.model_provider,
                               !.language = SharedRequest.language])
  /\ UNCHANGED <<enabled, redis, writer, keyed>>

\* line 108: explainer_service.explain_article(...) is called
EnterExplain(r) ==
  /\ run[r].pc = "dispatch"
  /\ run[r].tool = JString("EXPLAIN_ARTICLE")
  /\ run[r].params.kind = "object"
  /\ Truthy(DictGet(run[r].params, "article_number", JNull))
  /\ SetRun(r, [run[r] EXCEPT !.pc = "in_explain"])
  /\ UNCHANGED <<enabled, redis, writer, keyed>>

\* lines 125, 140: search_service.search(...) is called
EnterSearch(r) ==
  /\ run[r].pc = "dispatch"
  /\ run[r].tool \in {JString("TOPIC_SEARCH"), JString("GENERAL_QA")}
  /\ run[r].params.kind = "object"
  /\ SetRun(r, [run[r] EXCEPT !.pc = "in_search"])
  /\ UNCHANGED <<enabled, redis, writer, keyed>>

\* the segments of generator r the loop can run
RunStep(r) ==
  \/ OnLoop(r, StartConcurrent(r))
  \/ OnLoop(r, Probe(r))
  \/ OnLoop(r, ReplayNext(r))
  \/ OnLoop(r, BeginAttempt(r))
  \/ OnLoop(r, RouterRaises(r))
  \/ OnLoop(r, RouterReturns(r))
  \/ OnLoop(r, EnterExplain(r))
  \/ OnLoop(r, run[r].pc \in SyncPcs /\ ExplainArticle(r))
  \/ OnLoop(r, ExplainResume(r))
  \/ OnLoop(r, EnterSearch(r))
  \/ OnLoop(r, run[r].pc \in SyncPcs /\ GeneralQA(r))
  \/ OnLoop(r, AstreamOpen(r))
  \/ OnLoop(r, AstreamRequest(r))
  \/ OnLoop(r, AstreamFragment(r))
  \/ OnLoop(r, AstreamEnd(r))
  \/ OnLoop(r, SleepDone(r))
  \/ OnLoop(r, Exhausted(r))
  \/ OnLoop(r, FinalResume(r))

NextLoop == \E r \in Runs : RunStep(r)

SpecLoop == InitLoop /\ [][NextLoop]_vars

(***************************************************************************)
(* Key derivation on its own: calls of CacheService._generate_key as       *)
(* SearchService.search makes them, and the key chat_stream derives for a  *)
(* request, two at a time so that their keys can be compared.              *)
(***************************************************************************)
IdChars == {"A", "a", " "}

\* the identifiers: texts of at most MaxIdLen characters
Identifiers == UNION { [1..n -> IdChars] : n \in 0..MaxIdLen }

KeyItems == { <<"model", "openai">>, <<"lang", "en">>, <<"lang", "">> }

\* keyword arguments in the order they are passed, no name twice
KwargsLists ==
  { <<>> } \cup { <<i>> : i \in KeyItems }
  \cup { p \in KeyItems \X KeyItems : p[1][1] # p[2][1] }

\* the key of a call that has not returned
NoKey == <<>>

GenerateKeyCalls ==
  [op : {"_generate_key"}, namespace : {"search"}, identifier : Identifiers,
   kwargs : KwargsLists, key : {NoKey}]

ChatStreamCalls ==
  [op : {"chat_stream"}, query : Identifiers,
   model_provider : {None, "openai", "gemini"}, language : {"en", "de"},
   key : {NoKey}]

InitKey ==
  /\ enabled = TRUE
  /\ redis = [k \in ChatKeys |-> NoValue]
  /\ run = [r \in Runs |-> IdleRun]
  /\ writer = [k \in ChatKeys |-> NoWriter]
  /\ keyed \in [KeySides -> GenerateKeyCalls \cup ChatStreamCalls]

\* cache_service.get(namespace, identifier, **kwargs) derives its key
GenerateKey(side) ==
  /\ keyed[side].op = "_generate_key"
  /\ keyed[side].key = NoKey
  /\ keyed' = [keyed EXCEPT ![side].key =
                 _generate_key(keyed[side].namespace, keyed[side].identifier,
                               keyed[side].kwargs)]
  /\ UNCHANGED <<enabled, redis, run, writer>>

\* chat_stream lines 61-63: the key of a request
ChatStreamKey(side) ==
  /\ keyed[side].op = "chat_stream"
  /\ keyed[side].key = NoKey
  /\ keyed' = [keyed EXCEPT ![side].key = RunKey(keyed[side])]
  /\ UNCHANGED <<enabled, redis, run, writer>>

NextKey ==
  \/ \E side \in KeySides : GenerateKey(side)
  \/ \E side \in KeySides : ChatStreamKey(side)

SpecKey == InitKey /\ [][NextKey]_vars

(***************************************************************************)
(* The provider behind a key: chat_stream derives the key of a request and *)
(* get_llm builds the model client for it, in one process, that is under   *)
(* one value of the environment variable LLM_PROVIDER.                     *)
(***************************************************************************)
\* os.getenv("LLM_PROVIDER", "openai"): the variable is unset or set
EnvUnset == "<unset>"
LlmProviderEnvs == {EnvUnset, "openai", "gemini", "Gemini"}

Getenv(value, default) == IF value = EnvUnset THEN default ELSE value

\* str.lower() of a provider name
LowerProvider(p) == IF p = "Gemini" THEN "gemini" ELSE p

\* get_llm(temperature, provider): the class of the client it returns
get_llm(provider, env) ==
  LET resolved == IF ~TruthyStr(provider)
                  THEN LowerProvider(Getenv(env, "openai"))
                  ELSE provider
  IN  IF resolved = "gemini" THEN "ChatGoogleGenerativeAI" ELSE "ChatOpenAI"

\* the client of a call that has not reached get_llm
NoLlm == "<none>"

ProviderQueries == Queries \cup { <<"a">> }

ProviderCalls ==
  [op : {"chat_stream"}, query : ProviderQueries,
   model_provider : {None, "openai", "gemini", "Gemini"},
   language : {"en", "de"}, env : LlmProviderEnvs,
   key : {NoKey}, llm : {NoLlm}]

InitProvider ==
  /\ enabled = TRUE
  /\ redis = [k \in ChatKeys |-> NoValue]
  /\ run = [r \in Runs |-> IdleRun]
  /\ writer = [k \in ChatKeys |-> NoWriter]
  /\ keyed \in { f \in [KeySides -> ProviderCalls] :
                   \A s, t \in KeySides : f[s].env = f[t].env }

\* chat_stream lines 82-83: after the cache probe missed, the model client
\* of the attempt
GetLlm(side) ==
  /\ keyed[side].op = "chat_stream"
  /\ keyed[side].key # NoKey
  /\ keyed[side].llm = NoLlm
  /\ keyed' = [keyed EXCEPT ![side].llm =
                 get_llm(keyed[side].model_provider, keyed[side].env)]
  /\ UNCHANGED <<enabled, redis, run, writer>>

NextProvider ==
  \/ \E side \in KeySides : ChatStreamKey(side)
  \/ \E side \in KeySides : GetLlm(side)

SpecProvider == InitProvider /\ [][NextProvider]_vars

(***************************************************************************)
(* Properties.                                                             *)
(***************************************************************************)
Lines(chunks) == [i \in 1..Len(chunks) |-> Line(chunks[i])]

TypeOf(line) == line.json.type

IsHit(rec) == rec.cached_response # NoValue

NoCollaboratorCalls(rec) ==
  /\ rec.calls.get_llm = 0
  /\ rec.calls.router = 0
  /\ rec.calls.explain = 0
  /\ rec.calls.search = 0
  /\ rec.calls.astream = 0

ErrorLines(out) == { i \in 1..Len(out) : TypeOf(out[i]) = "error" }

SameRequest(a, b) ==
  /\ a.query = b.query
  /\ a.model_provider = b.model_provider
  /\ a.language = b.language

\* C1: a run that finds a cached transcript under its key emits the cached
\* chunks, in the stored order, as its whole output and then ends, and it
\* calls none of get_llm, the router chain, the qa chain, search and
\* explain_article.
C1_CacheHitReplaysOnly ==
  \A r \in Runs :
    IsHit(run[r]) =>
      LET cached == Lines(run[r].cached_response.chunks)
      IN  /\ run[r].pc \in {"replay_yielded", "done"}
          /\ NoCollaboratorCalls(run[r])
          /\ run[r].calls.cache_set = 0
          /\ run[r].replay_i <= Len(cached)
          /\ run[r].out = SubSeq(cached, 1, run[r].replay_i)
          /\ run[r].pc = "done" => run[r].out = cached

\* a finished run that replayed a transcript of three chunks or more
C1_Witness ==
  \E r \in Runs :
    /\ IsHit(run[r])
    /\ run[r].pc = "done"
    /\ Len(run[r].out) >= 3

\* C2: with the cache available and the entry not expired or invalidated,
\* a run with the same (query, model_provider, language) as the run whose
\* transcript is cached hits the cache, emits the lines that run emitted,
\* in the same order, and calls no collaborator; also when the first run
\* needed a retry.
C2_SecondRunRepeatsFirst ==
  /\ [](\A r \in Runs :
         (IsHit(run[r]) /\ run[r].found_writer # NoWriter
            /\ SameRequest(run[r].found_writer, run[r])) =>
           /\ NoCollaboratorCalls(run[r])
           /\ run[r].out = SubSeq(run[r].found_writer.out, 1, run[r].replay_i)
           /\ run[r].pc = "done" => run[r].out = run[r].found_writer.out)
  /\ [][\A r \in Runs :
         (/\ run[r].pc = "start"
          /\ run'[r].pc # "start"
          /\ enabled
          /\ run'[r].probe_ok
          /\ writer[RunKey(run[r])] # NoWriter) =>
           /\ IsHit(run'[r])
           /\ run'[r].found_writer = writer[RunKey(run[r])]]_vars

\* a finished second run that repeated the output of a first run which
\* had streamed a token, failed, retried and completed GENERAL_QA
C2_Witness ==
  \E r \in Runs :
    /\ IsHit(run[r])
    /\ run[r].pc = "done"
    /\ run[r].found_writer # NoWriter
    /\ SameRequest(run[r].found_writer, run[r])
    /\ Len(run[r].out) >= 4
    /\ run[r].out = run[r].found_writer.out
    /\ \E i, j \in 1..Len(run[r].out) :
         /\ i < j
         /\ TypeOf(run[r].out[i]) = "token"
         /\ TypeOf(run[r].out[j]) = "sources"

\* C3: on a cache miss, when every attempt raises, the run makes exactly 2
\* attempts and then emits exactly one Error chunk, which is its last
\* chunk; no run makes more than 2 attempts.
C3_TwoAttemptsThenOneError ==
  \A r \in Runs :
    /\ run[r].attempts <= 2
    /\ (run[r].pc \in {"error_yielded", "done"} /\ run[r].failed > 0
          /\ run[r].failed = run[r].attempts) =>
         /\ run[r].attempts = 2
         /\ run[r].out # <<>>
         /\ ErrorLines(run[r].out) = { Len(run[r].out) }

\* a finished run both of whose attempts raised, the first one after it
\* had emitted chunks
C3_Witness ==
  \E r \in Runs :
    /\ run[r].pc = "done"
    /\ run[r].failed = 2
    /\ Len(run[r].out) >= 3

\* the lines the current attempt has emitted
AttemptLines(rec) == SubSeq(rec.out, rec.attempt_base + 1, Len(rec.out))

\* a sequence of lines without the terminal Error chunk of a run that ended
\* with one
WithoutTerminal(rec, lines) ==
  IF /\ rec.pc \in {"error_yielded", "done"}
     /\ lines # <<>>
     /\ TypeOf(lines[Len(lines)]) = "error"
  THEN SubSeq(lines, 1, Len(lines) - 1)
  ELSE lines

SourcesThenTokens(lines) ==
  \/ lines = <<>>
  \/ /\ TypeOf(lines[1]) = "sources"
     /\ \A i \in 2..Len(lines) : TypeOf(lines[i]) = "token"

\* the contents of the Token chunks among some lines, in order
TokenContents(lines) ==
  LET tokens == SelectSeq(lines, LAMBDA l : TypeOf(l) = "token")
  IN  [i \in 1..Len(tokens) |-> tokens[i].json.content]

\* C4: the transcript a run writes to the cache holds only the chunks of
\* the attempt that completed, none of an earlier failed attempt.
C4_OnlyCompletedAttemptCached ==
  \A r \in Runs :
    (run[r].pc = "done" /\ run[r].calls.cache_set > 0) =>
      Lines(run[r].response_chunks) = AttemptLines(run[r])

\* C5 as stated: in a run that selects GENERAL_QA the first chunk is a
\* Sources chunk and every chunk after it, up to the terminal point, is a
\* Token chunk, also when an attempt failed mid-stream and was retried.
C5_SourcesFirstInRun ==
  \A r \in Runs :
    run[r].tool = JString("GENERAL_QA") =>
      SourcesThenTokens(WithoutTerminal(run[r], run[r].out))

\* C5 amended: in every GENERAL_QA attempt the first chunk the attempt
\* emits is a Sources chunk and every chunk it emits after that is a Token
\* chunk; a run whose first emitting attempt is this one starts with Sources.
C5_SourcesFirstInAttempt ==
  \A r \in Runs :
    run[r].tool = JString("GENERAL_QA") =>
      /\ SourcesThenTokens(WithoutTerminal(run[r], AttemptLines(run[r])))
      /\ run[r].attempt_base = 0 =>
           SourcesThenTokens(WithoutTerminal(run[r], run[r].out))

\* a finished run whose second attempt completed GENERAL_QA with sources
\* and a token, after the first attempt had emitted chunks
C5_Witness ==
  \E r \in Runs :
    /\ run[r].pc = "done"
    /\ run[r].tool = JString("GENERAL_QA")
    /\ run[r].attempts = 2
    /\ run[r].attempt_base >= 2
    /\ Len(AttemptLines(run[r])) >= 2
    /\ run[r].calls.cache_set = 1

\* C6: in a GENERAL_QA attempt the k-th Token chunk carries the k-th
\* fragment of the generation stream and is emitted before fragment k+1 is
\* requested; when the stream ends normally the Token contents, in order,
\* are the whole generated answer.
C6_TokensFollowStream ==
  \A r \in Runs :
    (/\ run[r].tool = JString("GENERAL_QA")
     /\ run[r].pc \in {"sources_yielded", "astream_wait", "token_yielded",
                       "sleeping", "exhausted", "error_yielded", "done"}) =>
      LET toks == TokenContents(AttemptLines(run[r]))
      IN  /\ \A k \in 1..Len(toks) : toks[k] = Fragment(run[r].attempt, k)
          /\ toks = run[r].full_answer
          /\ run[r].pc = "astream_wait" => Len(toks) = run[r].requested - 1
          /\ run[r].pc = "token_yielded" => Len(toks) = run[r].requested
          /\ (run[r].pc = "done" /\ run[r].calls.cache_set > 0) =>
               toks = [k \in 1..(run[r].requested - 1) |->
                         Fragment(run[r].attempt, k)]

\* a GENERAL_QA run that ended normally after two fragments
C6_Witness ==
  \E r \in Runs :
    /\ run[r].pc = "done"
    /\ run[r].tool = JString("GENERAL_QA")
    /\ run[r].calls.cache_set > 0
    /\ Len(run[r].full_answer) >= 2

\* C7: a classifier answer that is no JSON document does not fail the
\* attempt: the route is GENERAL_QA on the original query, a failure of such
\* an attempt comes from the generation stream only, and with no exception
\* in the run the output is a Sources chunk followed by Token chunks, with
\* no Error chunk, and not empty.
C7_NonJsonFallsBack ==
  \A r \in Runs :
    (run[r].route_fallback /\ run[r].pc # "attempt") =>
      /\ run[r].tool = JString("GENERAL_QA")
      /\ run[r].params = JObject([query |-> JText(run[r].query)])
      /\ run[r].pc \in {"sleeping", "exhausted"} =>
           /\ run[r].requested >= 1
           /\ run[r].last_error.text \in ErrorTexts
      /\ (run[r].pc = "done" /\ run[r].failed = 0) =>
           /\ run[r].out # <<>>
           /\ TypeOf(run[r].out[1]) = "sources"
           /\ SourcesThenTokens(run[r].out)
           /\ ErrorLines(run[r].out) = {}

\* a finished run without exception whose classifier answer was no JSON and
\* which emitted sources and a token
C7_Witness ==
  \E r \in Runs :
    /\ run[r].route_fallback
    /\ run[r].pc = "done"
    /\ run[r].failed = 0
    /\ Len(run[r].out) >= 2

\* C8: every classifier answer that is not a valid route decision (no JSON,
\* JSON but no object, an object without tool, an unknown tool) degrades to
\* GENERAL_QA on the original query and causes no failure by itself.
C8_InvalidRouteDegrades ==
  \A r \in Runs :
    (run[r].route_invalid /\ run[r].pc # "attempt") =>
      /\ run[r].tool = JString("GENERAL_QA")
      /\ run[r].params = JObject([query |-> JText(run[r].query)])
      /\ run[r].pc \in {"sleeping", "exhausted"} => run[r].requested >= 1

\* C9: cache_service.set on the chat namespace is called only at the end of
\* a branch that ran completely (explanation found, topic search, general
\* QA with the stream ended); never in a run that ends with the not-found
\* chunk or the terminal Error chunk, never in an attempt that raised.
C9_CacheWriteOnlyAfterCompleteBranch ==
  /\ [](\A r \in Runs :
         /\ run[r].calls.cache_set <= 1
         /\ run[r].pc \in {"sleeping", "exhausted", "error_yielded",
                           "not_found_yielded"} => run[r].calls.cache_set = 0
         /\ run[r].calls.cache_set = 1 =>
              /\ run[r].pc = "done"
              /\ run[r].tool \in { JString(t) : t \in Tools }
              /\ run[r].failed < run[r].attempts
              /\ run[r].out # <<>>
              /\ ErrorLines(run[r].out) = {})
  /\ [][redis' # redis =>
          \/ \E k \in ChatKeys : redis' = [redis EXCEPT ![k] = NoValue]
          \/ \E r \in Runs :
               /\ run[r].pc \in {"explanation_yielded",
                                 "search_results_yielded", "astream_wait"}
               /\ run'[r].pc = "done"
               /\ run'[r].calls.cache_set = run[r].calls.cache_set + 1
               /\ redis' = [redis EXCEPT ![RunKey(run[r])] =
                              [value |-> Dumps([chunks |-> run[r].response_chunks]),
                               ttl |-> CACHE_TTL_CHAT]]]_vars

\* a finished run that wrote the cache in its second attempt, after the
\* first attempt had raised
C9_Witness ==
  \E r \in Runs :
    /\ run[r].pc = "done"
    /\ run[r].calls.cache_set = 1
    /\ run[r].failed = 1
    /\ redis[RunKey(run[r])] # NoValue

\* C10: when the route is EXPLAIN_ARTICLE and article_number is absent or
\* explain_article returns nothing, the run emits the one Error chunk
\* 'Could not find the specified article.', then ends without another
\* attempt and without the delay, and writes nothing to the cache.
C10_NotFoundEndsRun ==
  /\ [](\A r \in Runs :
         run[r].pc = "not_found_yielded" =>
           /\ run[r].out[Len(run[r].out)] = Line(NotFoundChunk)
           /\ ErrorLines(run[r].out) = { Len(run[r].out) }
           /\ run[r].calls.cache_set = 0)
  /\ [][\A r \in Runs :
         LET art_num == DictGet(run[r].params, "article_number", JNull)
             explaining == /\ run[r].pc = "dispatch"
                           /\ run[r].tool = JString("EXPLAIN_ARTICLE")
                           /\ run[r].params.kind = "object"
                           /\ run'[r] # run[r]
         IN  /\ (explaining /\ ~Truthy(art_num)) =>
                  /\ run'[r] = AppendAndYield(run[r], NotFoundChunk,
                                              "not_found_yielded")
                  /\ redis' = redis
             /\ (explaining /\ Truthy(art_num)
                   /\ ("ART-" \o Format(art_num)) \notin GraphArticles) =>
                  \/ run'[r] = AppendAndYield(Count(run[r], "explain"),
                                 NotFoundChunk, "not_found_yielded")
                  \/ run'[r].failed = run[r].failed + 1
             /\ (run[r].pc = "not_found_yielded" /\ run'[r] # run[r]) =>
                  /\ run'[r] = [run[r] EXCEPT !.pc = "done"]
                  /\ redis' = redis]_vars

\* a finished run that ended with the not-found chunk after explain_article
\* returned nothing
C10_Witness ==
  \E r \in Runs :
    /\ run[r].pc = "done"
    /\ run[r].out # <<>>
    /\ run[r].out[Len(run[r].out)] = Line(NotFoundChunk)
    /\ run[r].calls.explain = 1
    /\ run[r].calls.cache_set = 0

\* C11: after the attempts are used up, the message of the terminal Error
\* chunk is selected from the error text of the last attempt only, not of
\* the first one: the model-unavailable message when the text has both 404
\* and models/, else the quota message when it has quota in any case, else
\* the generic message.
C11_MessageFromLastAttempt ==
  \A r \in Runs :
    run[r].pc = "error_yielded" =>
      run[r].out[Len(run[r].out)] =
        Line(ErrorChunk(ErrorMessage(run[r].attempt_error)))

\* a text of spaces only
Blank(s) == \A i \in 1..Len(s) : s[i] = " "

\* the same character up to letter case
SameLetter(c, d) ==
  \/ c = d
  \/ {c, d} \in { {"A", "a"}, {"I", "i"}, {"Q", "q"} }

\* two texts that differ only in letter case or in leading and trailing
\* whitespace
DifferOnlyInCaseOrMargin(a, b) ==
  \E i \in 0..Len(a), k \in 0..Len(b) :
    \E j \in i..Len(a), l \in k..Len(b) :
      /\ Blank(SubSeq(a, 1, i)) /\ Blank(SubSeq(a, j + 1, Len(a)))
      /\ Blank(SubSeq(b, 1, k)) /\ Blank(SubSeq(b, l + 1, Len(b)))
      /\ j - i = l - k
      /\ \A n \in 1..(j - i) : SameLetter(a[i + n], b[k + n])

\* the same keyword arguments, in whatever order
SameKwargs(x, y) ==
  /\ Len(x) = Len(y)
  /\ { x[i] : i \in 1..Len(x) } = { y[i] : i \in 1..Len(y) }

\* C12: _generate_key gives the same key for the same namespace and extra
\* params when the identifiers differ only in letter case or in leading or
\* trailing whitespace, whatever the order the extra params are passed in;
\* and two chat requests with the same normalized query, provider and
\* language get the same key.
C12_KeyNormalizing ==
  \A s, t \in KeySides :
    LET a == keyed[s]
        b == keyed[t]
    IN  (a.key # NoKey /\ b.key # NoKey) =>
          /\ (/\ a.op = "_generate_key" /\ b.op = "_generate_key"
               /\ a.namespace = b.namespace
               /\ SameKwargs(a.kwargs, b.kwargs)
               /\ DifferOnlyInCaseOrMargin(a.identifier, b.identifier)) =>
                a.key = b.key
          /\ (/\ a.op = "chat_stream" /\ b.op = "chat_stream"
               /\ DifferOnlyInCaseOrMargin(a.query, b.query)
               /\ a.model_provider = b.model_provider
               /\ a.language = b.language) =>
                a.key = b.key

\* two calls whose identifiers differ in case and in the whitespace around
\* them and whose two extra params come in opposite orders, with one key
C12_Witness ==
  LET a == keyed["left"]
      b == keyed["right"]
  IN  /\ a.op = "_generate_key" /\ b.op = "_generate_key"
      /\ a.key # NoKey /\ a.key = b.key
      /\ a.identifier = <<" ", "A">>
      /\ b.identifier = <<"a", " ">>
      /\ Len(a.kwargs) = 2
      /\ a.kwargs # b.kwargs
      /\ Len(a.key) = 3

\* C13: with the cache disabled at startup or failing at call time, get
\* returns absent and set returns failure and stores nothing; the probe of
\* a run then continues exactly as on a miss, the write at the end of a
\* branch ends the run with its output unchanged whatever the store does,
\* and no exception and no Error chunk comes from a cache call.
C13_CacheUnavailableAbsorbed ==
  /\ [](\A k \in ChatKeys, store_ok \in BOOLEAN :
          (~enabled \/ ~store_ok) =>
            /\ CacheGet(k, store_ok) = NoValue
            /\ CacheSet(k, [chunks |-> <<>>], store_ok) = redis
            /\ ~CacheSetResult(store_ok))
  /\ [](~enabled =>
          /\ \A k \in ChatKeys : redis[k] = NoValue
          /\ \A r \in Runs : ~IsHit(run[r]))
  /\ [][\A r \in Runs :
         /\ (/\ run[r].pc = "start" /\ run'[r].pc # "start"
              /\ (~enabled \/ ~run'[r].probe_ok
                     \/ redis[RunKey(run[r])] = NoValue)) =>
               run'[r] = [run[r] EXCEPT !.pc = "attempt",
                                        !.probe_ok = run'[r].probe_ok]
         /\ (/\ run[r].pc \notin {"idle", "done"}
              /\ run'[r].calls.cache_set # run[r].calls.cache_set) =>
               /\ run'[r] = [Count(run[r], "cache_set") EXCEPT !.pc = "done"]
               /\ ~enabled => redis' = redis
         /\ (/\ run[r].pc \notin {"idle", "done"}
              /\ run'[r].failed # run[r].failed) =>
               /\ run[r].pc \in {"attempt", "router_wait", "dispatch",
                                  "astream_wait"}
               /\ run'[r].calls.cache_set = run[r].calls.cache_set
               /\ redis' = redis
         /\ (/\ ~IsHit(run'[r])
              /\ ErrorLines(run'[r].out) \ ErrorLines(run[r].out) # {}) =>
               run[r].pc \in {"dispatch", "exhausted"}]_vars

\* a finished run whose probe failed although the key held a transcript
\* and whose write failed too: the store still holds the other transcript
C13_Witness ==
  \E r \in Runs :
    /\ enabled
    /\ run[r].pc = "done"
    /\ ~run[r].probe_ok
    /\ run[r].calls.cache_set = 1
    /\ ErrorLines(run[r].out) = {}
    /\ redis[RunKey(run[r])] # NoValue
    /\ redis[RunKey(run[r])].value # Dumps([chunks |-> run[r].response_chunks])

\* a generator that waits in the inter-retry delay or in a call of the
\* retrieval, explainer or generation collaborator
InCollaboratorCall(rec) ==
  rec.pc \in {"sleeping", "in_search", "in_explain", "router_wait",
              "astream_wait"}

\* what does hold: a generator that waits in an await (the delay, the
\* classifier call, the generation stream) leaves the loop to the others
AwaitsDoNotBlockOthers ==
  \A r, q \in Runs :
    (/\ r # q
     /\ run[r].pc \in {"sleeping", "router_wait", "astream_wait"}
     /\ run[q].pc \notin SyncPcs
     /\ run[q].pc \notin {"idle", "done"}) =>
      ENABLED RunStep(q)

\* C14: on one event loop, while a request is inside the inter-retry delay
\* or inside a call of search, explain_article or the generation
\* collaborator, every other request in flight can still take a step.
C14_CallsDoNotBlockOthers ==
  \A r, q \in Runs :
    (/\ r # q
     /\ InCollaboratorCall(run[r])
     /\ run[q].pc \notin {"idle", "done"}) =>
      ENABLED RunStep(q)

\* C15: for concurrent runs of one request that all miss the cache, the
\* value under the shared key is at every moment absent or the complete
\* transcript of one single run, the one that wrote last; every write puts
\* the writing run's whole transcript there.
C15_StoredValueIsOneTranscript ==
  /\ [](\A k \in ChatKeys :
          \/ redis[k] = NoValue
          \/ \E r \in Runs :
               /\ RunKey(run[r]) = k
               /\ ~IsHit(run[r])
               /\ run[r].pc = "done"
               /\ run[r].calls.cache_set = 1
               /\ Lines(run[r].response_chunks) = run[r].out
               /\ redis[k].value = Dumps([chunks |-> run[r].response_chunks])
               /\ writer[k].out = run[r].out)
  /\ [][\A r \in Runs :
         (/\ run'[r].calls.cache_set = run[r].calls.cache_set + 1
          /\ redis' # redis) =>
           /\ redis' = [redis EXCEPT ![RunKey(run[r])] =
                          [value |-> Dumps([chunks |-> run[r].response_chunks]),
                           ttl |-> CACHE_TTL_CHAT]]
           /\ writer'[RunKey(run[r])].out = run[r].out]_vars

\* two runs of the request that both missed, both wrote, with different
\* transcripts: the key holds the transcript of the second writer
C15_Witness ==
  \E r, q \in Runs :
    /\ r # q
    /\ ~IsHit(run[r]) /\ ~IsHit(run[q])
    /\ run[r].pc = "done" /\ run[q].pc = "done"
    /\ run[r].calls.cache_set = 1 /\ run[q].calls.cache_set = 1
    /\ SameRequest(run[r], run[q])
    /\ run[r].response_chunks # run[q].response_chunks
    /\ Len(run[q].response_chunks) >= 2
    /\ redis[RunKey(run[q])] # NoValue
    /\ redis[RunKey(run[q])].value = Dumps([chunks |-> run[q].response_chunks])
    /\ writer[RunKey(run[q])].out = run[q].out

\* the positions of a generator; none of them is outside the generator
\* with an exception on its way to the transport
Positions ==
  {"idle", "start", "replay_yielded", "attempt", "router_wait", "dispatch",
   "in_explain", "in_search", "explanation_yielded", "not_found_yielded",
   "search_results_yielded", "sources_yielded", "astream_wait",
   "token_yielded", "sleeping", "exhausted", "error_yielded", "done"}

\* C16: no exception leaves chat_stream: whatever fails in either attempt
\* (get_llm or the classifier call, the explainer, the retrieval, the
\* generation stream, the cache), the failure is caught and leads to the
\* delay and another attempt or, after the last attempt, to the terminal
\* Error chunk and the normal end of the chunk sequence.
C16_NoExceptionEscapes ==
  /\ [](\A r \in Runs : run[r].pc \in Positions)
  /\ [][\A r \in Runs :
         /\ (/\ run[r].pc \notin {"idle", "done"}
              /\ run'[r].failed # run[r].failed) =>
               /\ run'[r].failed = run[r].failed + 1
               /\ run'[r].last_error.raised
               /\ run'[r].out = run[r].out
               /\ run'[r].pc = IF run[r].attempt + 1 < max_retries
                               THEN "sleeping" ELSE "exhausted"
         /\ (run[r].pc = "sleeping" /\ run'[r] # run[r]) =>
               /\ run'[r].pc = "attempt"
               /\ run'[r].attempt = run[r].attempt + 1
         /\ (run[r].pc = "exhausted" /\ run'[r] # run[r]) =>
               /\ run'[r].pc = "error_yielded"
               /\ run'[r].out =
                    Append(run[r].out,
                           Line(ErrorChunk(ErrorMessage(run[r].last_error))))
         /\ (run[r].pc = "error_yielded" /\ run'[r] # run[r]) =>
               run'[r].pc = "done"]_vars

\* a finished run whose cache probe failed, whose first attempt failed in
\* the generation stream after a token and whose second attempt failed in
\* the retrieval call, ended by the terminal Error chunk
C16_Witness ==
  \E r \in Runs :
    /\ run[r].pc = "done"
    /\ enabled /\ ~run[r].probe_ok
    /\ run[r].failed = 2
    /\ run[r].last_error = Raised(TypeErrorText)
    /\ \E i \in 1..Len(run[r].out) : TypeOf(run[r].out[i]) = "token"
    /\ ErrorLines(run[r].out) = { Len(run[r].out) }

\* C17: SearchService.search raises for no query chat_stream can pass to
\* it, the absent query of a route whose parameters lack topic or query
\* included: it always returns a sequence of hits.
C17_SearchNeverRaises ==
  \A r \in Runs :
    (run[r].pc = "dispatch" /\ run[r].params.kind = "object") =>
      /\ run[r].tool = JString("TOPIC_SEARCH") =>
           \A o \in SearchOutcomes(DictGet(run[r].params, "topic", JNull),
                                   TOPIC_LIMIT) : o.kind = "result"
      /\ run[r].tool = JString("GENERAL_QA") =>
           \A o \in SearchOutcomes(DictGet(run[r].params, "query", JNull),
                                   QA_LIMIT) : o.kind = "result"

\* the tags of the chunks chat_stream builds
ChunkTypes == {"explanation", "search_results", "sources", "token", "error"}

JSONDecodeError == [kind |-> "JSONDecodeError"]

\* response.json() of the test client: json.loads of the whole body, which
\* is one document only when the body is one line
ResponseJson(out) == IF Len(out) = 1 THEN Loads(out[1]) ELSE JSONDecodeError

\* test_chat_general: the assertions on the decoded body
TestChatGeneralPasses(out) ==
  LET data == ResponseJson(out)
  IN  /\ data # JSONDecodeError
      /\ data.type \in {"answer", "search_results"}
      /\ "content" \in DOMAIN data

C19_ExplainIsOneChunk ==
  \A r \in Runs :
    (/\ run[r].pc = "done"
     /\ run[r].tool = JString("EXPLAIN_ARTICLE")
     /\ run[r].calls.cache_set > 0) =>
      \E o \in ExplainOutcomes(
               "ART-" \o Format(DictGet(run[r].params, "article_number",
                                        JNull))) :
        /\ o.kind = "result"
        /\ run[r].out = <<Line(ExplanationChunk(o.result))>>
        /\ run[r].response_chunks = <<ExplanationChunk(o.result)>>
        /\ \A k \in ChatKeys :
             (writer[k] # NoWriter /\ writer[k].out = run[r].out) =>
               /\ k = RunKey(run[r])
               /\ redis[k].ttl = CACHE_TTL_CHAT
               /\ Loads(redis[k].value) =
                    [chunks |-> <<ExplanationChunk(o.result)>>]

\* C20: whenever a run starts a second attempt, the delay of 1 has elapsed
\* between the end of the first attempt and the start of the second,
\* whether the first attempt ended with a raised error or with a tool that
\* matches no branch; the second attempt restarts from classification; no
\* delay is taken after the last attempt before the terminal Error chunk.
C20_DelayBeforeSecondAttempt ==
  /\ [](\A r \in Runs :
          /\ run[r].attempts >= 2 =>
               run[r].slept = SLEEP_SECONDS * (run[r].attempts - 1)
          /\ run[r].pc \in {"exhausted", "error_yielded"} =>
               run[r].slept <= SLEEP_SECONDS * (max_retries - 1))
  /\ [][\A r \in Runs :
         (run[r].attempts = 1 /\ run'[r].attempts = 2) =>
           /\ run'[r].calls.get_llm = run[r].calls.get_llm + 1
           /\ run'[r].pc = "router_wait" =>
                /\ run'[r].calls.router = run[r].calls.router + 1
                /\ run'[r].tool = JNull /\ run'[r].params = JNull]_vars

\* C21: on a cache miss, at every call of cache_service.set the transcript
\* being written is exactly the sequence of all chunks the run has emitted
\* so far, in emission order, the chunks of an earlier failed attempt of
\* the run included.
C21_WrittenTranscriptIsAllEmitted ==
  [][\A r \in Runs :
       run'[r].calls.cache_set = run[r].calls.cache_set + 1 =>
         /\ ~IsHit(run[r])
         /\ Lines(run[r].response_chunks) = run[r].out
         /\ run'[r].out = run[r].out
         /\ run'[r].response_chunks = run[r].response_chunks
         /\ \A k \in ChatKeys :
              redis'[k] # redis[k] =>
                /\ k = RunKey(run[r])
                /\ Lines(Loads(redis'[k].value).chunks) = run[r].out]_vars

\* a run whose second attempt has written, under its key, the transcript
\* that begins with the chunks of its failed first attempt
C21_Witness ==
  \E r \in Runs :
    /\ run[r].pc = "done"
    /\ run[r].calls.cache_set = 1
    /\ run[r].failed = 1
    /\ run[r].attempt_base >= 1
    /\ Len(run[r].out) > run[r].attempt_base
    /\ redis[RunKey(run[r])] # NoValue
    /\ Lines(Loads(redis[RunKey(run[r])].value).chunks) = run[r].out

\* C22: a run that starts from a cache holding only transcripts written
\* by chat_stream emits at most one Error chunk, an Error chunk is the last
\* chunk of the run, and no transcript stored in the chat namespace
\* contains an Error chunk.
C22_OneErrorLastNeverStored ==
  /\ \A r \in Runs :
       /\ Cardinality(ErrorLines(run[r].out)) <= 1
       /\ ErrorLines(run[r].out) \subseteq {Len(run[r].out)}
       /\ ErrorLines(run[r].out) # {} =>
            run[r].pc \in {"not_found_yielded", "error_yielded", "done"}
  /\ \A k \in ChatKeys :
       redis[k] # NoValue =>
         \A i \in 1..Len(Loads(redis[k].value).chunks) :
           Loads(redis[k].value).chunks[i].type # "error"

\* a finished run whose Error chunk follows the chunks of its failed
\* attempts, while the store holds a transcript of an earlier run
C22_Witness ==
  \E r \in Runs :
    /\ run[r].pc = "done"
    /\ Len(run[r].out) >= 2
    /\ ErrorLines(run[r].out) = {Len(run[r].out)}
    /\ \E k \in ChatKeys :
         redis[k] # NoValue /\ Len(Loads(redis[k].value).chunks) >= 1

\* C23: every run ends and has emitted at least one chunk by then, with at
\* most 2 classifier invocations and at most 1 delay, whatever the
\* collaborators return or raise; a run whose tool matches no branch in
\* both attempts ends with the generic Error chunk.
C23_EveryRunTerminates ==
  /\ [](\A r \in Runs :
          /\ run[r].calls.router <= max_retries
          /\ run[r].attempts <= max_retries
          /\ run[r].slept <= SLEEP_SECONDS
          /\ run[r].pc = "done" => Len(run[r].out) >= 1
          /\ (/\ run[r].pc = "done"
               /\ run[r].attempts = max_retries
               /\ run[r].failed = 0
               /\ run[r].tool \notin { JString(t) : t \in Tools }) =>
                run[r].out = <<Line(ErrorChunk(GenericMessage))>>)
  /\ \A r \in Runs : (run[r].pc = "start") ~> (run[r].pc = "done")

\* a finished run whose tool matched no branch in both attempts
C23_Witness ==
  \E r \in Runs :
    /\ run[r].pc = "done"
    /\ run[r].attempts = max_retries
    /\ run[r].failed = 0
    /\ run[r].calls.router = max_retries
    /\ run[r].tool \notin { JString(t) : t \in Tools }
    /\ run[r].slept = 0
    /\ Len(run[r].out) = 1

\* C24: when the caller abandons a run that is suspended at a chunk
\* emission or at a collaborator await, the run stops there: the
\* abandonment is not counted as a failed attempt, no retry and no terminal
\* Error chunk follow, and the cache is left unchanged.
C24_AbandonedRunStops ==
  /\ [](\A r \in Runs : run[r].abandoned => run[r].pc = "closed")
  /\ [][\A r \in Runs :
         /\ (run'[r].abandoned /\ ~run[r].abandoned) =>
              /\ run[r].pc \in YieldPcs \cup AwaitPcs
              /\ run'[r].out = run[r].out
              /\ run'[r].failed = run[r].failed
              /\ run'[r].attempts = run[r].attempts
              /\ run'[r].slept = run[r].slept
              /\ run'[r].calls = run[r].calls
              /\ run'[r].last_error = run[r].last_error
              /\ redis' = redis
              /\ writer' = writer
         /\ (run[r].pc = "closed" /\ run'[r] # run[r]) =>
              (run'[r].pc = "start" /\ redis' = redis)]_vars

\* a GENERAL_QA run abandoned after its sources and a token were
\* delivered, with nothing stored under its key
C24_Witness ==
  \E r \in Runs :
    /\ run[r].abandoned
    /\ run[r].pc = "closed"
    /\ run[r].tool = JString("GENERAL_QA")
    /\ Len(run[r].out) >= 2
    /\ run[r].calls.cache_set = 0
    /\ enabled
    /\ redis[RunKey(run[r])] = NoValue

\* C25: the model component of the chat cache key identifies the provider
\* get_llm selects: two runs that share a cache key are served by the same
\* provider, so a request with the model unspecified shares its key with a
\* request for openai only if get_llm resolves the unspecified provider to
\* OpenAI.
C25_KeyIdentifiesProvider ==
  \A s, t \in KeySides :
    LET a == keyed[s]
        b == keyed[t]
    IN  (/\ a.op = "chat_stream" /\ b.op = "chat_stream"
         /\ a.key # NoKey /\ b.key # NoKey
         /\ "llm" \in DOMAIN a /\ "llm" \in DOMAIN b
         /\ a.llm # NoLlm /\ b.llm # NoLlm
         /\ a.key = b.key) =>
          a.llm = b.llm

====
